---- MODULE Spec2Model ----
(***************************************************************************)
(* Model of the Perplexity model-selector content script                   *)
(* (src/content_script.js, class ModelSelector, lines 624-955).            *)
(*                                                                         *)
(* The script fetches the user's settings once, then injects a             *)
(* ".model-selector" container with two <select> elements into every host  *)
(* element matching one of its selectors, re-injects from a                *)
(* MutationObserver callback, and saves every selection with a PUT.        *)
(*                                                                         *)
(* The host page, the user and the server are the environment.  CSS        *)
(* classes (hidden, space-bottom, active) are styling only and are not     *)
(* modelled.                                                               *)
(***************************************************************************)
EXTENDS Integers, Sequences, FiniteSets, TLC

\* Number of host elements that can match a configured selector.
MaxElements == 2

\* Number of change events (save requests) in one behaviour.
MaxSaves == 2

Elements == 1..MaxElements

\* this.responseModels: the option values of the response dropdown.
responseModels ==
  <<"turbo", "claude2", "experimental", "gpt4o", "grok", "claude35haiku",
    "gemini2flash">>

\* this.imageModels: the option values of the image dropdown.
imageModels == <<"default", "dall-e-3", "flux">>

\* The values of the options of a list.
OptionValues(models) == {models[i] : i \in 1..Len(models)}

\* What the server may hold when the script starts: neither setting (the
\* keys are absent and read as undefined), values the dropdowns offer, or
\* values they do not offer (older lists had "llama_x_large" and "sdxl").
ServerSettings ==
  {[default_model |-> "undefined",
    default_image_generation_model |-> "undefined"],
   [default_model |-> "turbo",
    default_image_generation_model |-> "default"],
   [default_model |-> "llama_x_large",
    default_image_generation_model |-> "sdxl"]}

\* The options the user picks among.
UserChoices(models) == {models[1], models[2]}

\* JavaScript truthiness of a stored model value.
Truthy(v) == v \notin {"null", "undefined", ""}

VARIABLES
  server,                 \* the settings the server holds
  initState,              \* init(): "fetching", "done" or "failed"
  currentResponseModel,   \* this.currentResponseModel
  currentImageModel,      \* this.currentImageModel
  areSettingsInitialized, \* this.areSettingsInitialized
  observer,               \* this.observer: "null" or "observing"
  page,                   \* host elements and the containers inside them
  mutations,              \* mutation records queued for the observer
  requests,               \* save requests in flight
  nextId,                 \* number of the next save request
  disturbed,              \* per type: a save overlapped another or was lost
  last                    \* the last operation and what it did

vars ==
  <<server, initState, currentResponseModel, currentImageModel,
    areSettingsInitialized, observer, page, mutations, requests, nextId,
    disturbed, last>>

ModelTypes == {"response", "image"}

NoContainer == <<>>

BareElement == [present |-> TRUE, container |-> NoContainer]

AbsentElement == [present |-> FALSE, container |-> NoContainer]

\* What an operation did: the elements it injected a container into, how
\* the promise of its async function settled, and how many errors it logged.
Op(name) == [op |-> name, injected |-> {}, settled |-> "none", logged |-> 0]

\* Any step of the environment (the host page, the user, the server).
Environment == Op("environment")

Init ==
  /\ server \in ServerSettings
  /\ initState = "fetching"
  /\ currentResponseModel = "null"
  /\ currentImageModel = "null"
  /\ areSettingsInitialized = FALSE
  /\ observer = "null"
  /\ page \in [Elements -> {BareElement, AbsentElement}]
  /\ mutations = {}
  /\ requests = {}
  /\ nextId = 1
  /\ disturbed = [t \in ModelTypes |-> FALSE]
  /\ last = Op("constructor")

(***************************************************************************)
(* DOM helpers                                                             *)
(***************************************************************************)

\* A mutation record; only addedNodes.length is read by the script.
MutationRecord(addedNodes) == [addedNodes |-> addedNodes]

\* The records queued after a DOM change: none while nothing observes.
Queue(records) ==
  IF observer' = "observing" THEN mutations \cup records ELSE mutations

\* "select.value = v" followed by reading select.value: an option with that
\* value becomes the selected one, otherwise no option is selected and the
\* select reads as the empty string.
SelectSetValue(models, v) == IF v \in OptionValues(models) THEN v ELSE ""

\* Mutant of CreateDropdown: currentValue is never assigned, so a new
\* select always shows its first option.
CreateDropdownFirstOption(models, currentValue, onChange) ==
  [models |-> models, value |-> models[1], onChange |-> onChange]

\* createDropdown: a select with one option per model; the first option is
\* selected unless a truthy currentValue is assigned.
CreateDropdown(models, currentValue, onChange) ==
  [models   |-> models,
   value    |-> IF Truthy(currentValue)
                  THEN SelectSetValue(models, currentValue)
                  ELSE models[1],
   onChange |-> onChange]

\* Mutant of NewContainer: the image dropdown is appended first.
NewContainerImageFirst(curR, curI) ==
  <<CreateDropdown(imageModels, curI, "image"),
    CreateDropdown(responseModels, curR, "response")>>

\* The container injectDropdowns builds: the response dropdown, then the
\* image dropdown.
NewContainer(curR, curI) ==
  <<CreateDropdown(responseModels, curR, "response"),
    CreateDropdown(imageModels, curI, "image")>>

\* The elements injectDropdowns appends a container to.
NeedsContainer(pg) ==
  {e \in Elements : pg[e].present /\ pg[e].container = NoContainer}

\* injectDropdowns: every matching element without a container gets one.
InjectDropdowns(pg, curR, curI) ==
  [e \in Elements |->
     IF e \in NeedsContainer(pg)
       THEN [pg[e] EXCEPT !.container = NewContainer(curR, curI)]
       ELSE pg[e]]

\* Mutant of SyncContainer: the two selects are destructured in the wrong
\* order, so each gets the model of the other type.
SyncContainerSwapped(c, curR, curI) ==
  IF c = NoContainer THEN c ELSE
  [i \in 1..Len(c) |->
     IF i = 1 /\ Truthy(curI)
       THEN [c[i] EXCEPT !.value = SelectSetValue(c[i].models, curI)]
     ELSE IF i = 2 /\ Truthy(curR)
       THEN [c[i] EXCEPT !.value = SelectSetValue(c[i].models, curR)]
     ELSE c[i]]

\* syncDropdowns on one container: the first select gets the response
\* model and the second the image model, each only when truthy.
SyncContainer(c, curR, curI) ==
  IF c = NoContainer THEN c ELSE
  [i \in 1..Len(c) |->
     IF i = 1 /\ Truthy(curR)
       THEN [c[i] EXCEPT !.value = SelectSetValue(c[i].models, curR)]
     ELSE IF i = 2 /\ Truthy(curI)
       THEN [c[i] EXCEPT !.value = SelectSetValue(c[i].models, curI)]
     ELSE c[i]]

\* syncDropdowns: every container of the document is synchronised.
SyncDropdowns(pg, curR, curI) ==
  [e \in Elements |->
     [pg[e] EXCEPT !.container = SyncContainer(pg[e].container, curR, curI)]]

(***************************************************************************)
(* init                                                                    *)
(***************************************************************************)

\* getCurrentSettings: the two fields read from the response body.
GetCurrentSettings(data) ==
  [generalModel |-> data.default_model,
   imageModel   |-> data.default_image_generation_model]

\* Mutant of InitSucceed: the flag is not set before the observer is
\* created and the dropdowns are injected.
InitSucceedFlagUnset ==
  /\ initState = "fetching"
  /\ LET settings == GetCurrentSettings(server)
         injected == NeedsContainer(page)
     IN /\ currentResponseModel' = settings.generalModel
        /\ currentImageModel' = settings.imageModel
        /\ areSettingsInitialized' = FALSE
        /\ observer' = "observing"
        /\ page' = InjectDropdowns(page, settings.generalModel,
                                   settings.imageModel)
        /\ mutations' = IF injected # {} THEN {MutationRecord(1)} ELSE {}
        /\ last' = [op |-> "InitSucceed", injected |-> injected,
                    settled |-> "resolved", logged |-> 0]
  /\ initState' = "done"
  /\ UNCHANGED <<server, requests, nextId, disturbed>>

\* init, the settings fetch succeeded: store both models, set the flag,
\* create the observer and inject.
InitSucceed ==
  /\ initState = "fetching"
  /\ LET settings == GetCurrentSettings(server)
         injected == NeedsContainer(page)
     IN /\ currentResponseModel' = settings.generalModel
        /\ currentImageModel' = settings.imageModel
        /\ areSettingsInitialized' = TRUE
        /\ observer' = "observing"
        /\ page' = InjectDropdowns(page, settings.generalModel,
                                   settings.imageModel)
        /\ mutations' = IF injected # {} THEN {MutationRecord(1)} ELSE {}
        /\ last' = [op |-> "InitSucceed", injected |-> injected,
                    settled |-> "resolved", logged |-> 0]
  /\ initState' = "done"
  /\ UNCHANGED <<server, requests, nextId, disturbed>>

\* The ways a fetch fails: the promise rejects, the status is not OK, or
\* the body cannot be parsed.
FetchFailures == {"rejected", "notOk", "badJson"}

\* Mutant of InitFail: getCurrentSettings logs the error without
\* rethrowing it, so init goes on with undefined settings.
InitFailContinues(kind) ==
  /\ initState = "fetching"
  /\ kind \in FetchFailures
  /\ initState' = "failed"
  /\ currentResponseModel' = "undefined"
  /\ currentImageModel' = "undefined"
  /\ areSettingsInitialized' = TRUE
  /\ observer' = "observing"
  /\ page' = InjectDropdowns(page, "undefined", "undefined")
  /\ mutations' = IF NeedsContainer(page) # {}
                    THEN {MutationRecord(1)} ELSE {}
  /\ last' = [op |-> "InitFail", injected |-> NeedsContainer(page),
              settled |-> "resolved", logged |-> 1]
  /\ UNCHANGED <<server, requests, nextId, disturbed>>

\* init, the settings fetch failed: getCurrentSettings logs and rethrows,
\* init logs and returns.
InitFail(kind) ==
  /\ initState = "fetching"
  /\ kind \in FetchFailures
  /\ initState' = "failed"
  /\ last' = [op |-> "InitFail", injected |-> {}, settled |-> "resolved",
              logged |-> 2]
  /\ UNCHANGED <<server, currentResponseModel, currentImageModel,
                 areSettingsInitialized, observer, page, mutations, requests,
                 nextId, disturbed>>

(***************************************************************************)
(* The host page                                                           *)
(***************************************************************************)

\* The page renders a new element that matches a selector.
PageAddElement(e) ==
  /\ ~page[e].present
  /\ page' = [page EXCEPT ![e] = BareElement]
  /\ UNCHANGED observer
  /\ mutations' = Queue({MutationRecord(1)})
  /\ last' = Environment
  /\ UNCHANGED <<server, initState, currentResponseModel, currentImageModel,
                 areSettingsInitialized, requests, nextId,
                 disturbed>>

\* The page removes a matching element, and the container inside it.
PageRemoveElement(e) ==
  /\ page[e].present
  /\ page' = [page EXCEPT ![e] = AbsentElement]
  /\ UNCHANGED observer
  /\ mutations' = Queue({MutationRecord(0)})
  /\ last' = Environment
  /\ UNCHANGED <<server, initState, currentResponseModel, currentImageModel,
                 areSettingsInitialized, requests, nextId,
                 disturbed>>

\* The page re-renders a matching element: the old node is removed and a
\* fresh one, without a container, is added in its place.
PageReplaceElement(e) ==
  /\ page[e].present
  /\ page[e].container # NoContainer
  /\ page' = [page EXCEPT ![e] = BareElement]
  /\ UNCHANGED observer
  /\ mutations' = Queue({MutationRecord(1)})
  /\ last' = Environment
  /\ UNCHANGED <<server, initState, currentResponseModel, currentImageModel,
                 areSettingsInitialized, requests, nextId,
                 disturbed>>

\* The page removes the last div of a search bar, so that the div before
\* it becomes the "div:last-of-type" the selectors match: a matching
\* element appears and the only mutation is a removal.
PageRemoveSibling(e) ==
  /\ ~page[e].present
  /\ page' = [page EXCEPT ![e] = BareElement]
  /\ UNCHANGED observer
  /\ mutations' = Queue({MutationRecord(0)})
  /\ last' = Environment
  /\ UNCHANGED <<server, initState, currentResponseModel, currentImageModel,
                 areSettingsInitialized, requests, nextId,
                 disturbed>>

(***************************************************************************)
(* initObserver                                                            *)
(***************************************************************************)

\* Mutant of ShouldInject: the callback tests for two or more added nodes.
ShouldInjectSeveralAdded(mutation) ==
  mutation.addedNodes > 1 /\ areSettingsInitialized

\* The test the observer callback makes on each mutation record.
ShouldInject(mutation) ==
  mutation.addedNodes > 0 /\ areSettingsInitialized

\* The observer callback, called with the queued records: injectDropdowns
\* runs for every record that passes the test.  The containers it appends
\* are mutations of the observed subtree themselves.
ObserverCallback ==
  /\ observer = "observing"
  /\ mutations # {}
  /\ LET runs == \E m \in mutations : ShouldInject(m)
         injected == IF runs THEN NeedsContainer(page) ELSE {}
     IN /\ page' = IF runs
                     THEN InjectDropdowns(page, currentResponseModel,
                                          currentImageModel)
                     ELSE page
        /\ mutations' = IF injected # {} THEN {MutationRecord(1)} ELSE {}
        /\ last' = [op |-> "ObserverCallback", injected |-> injected,
                    settled |-> "none", logged |-> 0]
  /\ UNCHANGED <<server, initState, currentResponseModel, currentImageModel,
                 areSettingsInitialized, observer, requests, nextId, disturbed>>

\* The page adds a node that matches no selector (any other re-render).
PageAddOther ==
  /\ observer = "observing"
  /\ MutationRecord(1) \notin mutations
  /\ mutations' = mutations \cup {MutationRecord(1)}
  /\ last' = Environment
  /\ UNCHANGED <<server, initState, currentResponseModel, currentImageModel,
                 areSettingsInitialized, observer, page, requests, nextId, disturbed>>

(***************************************************************************)
(* handleModelChange                                                       *)
(***************************************************************************)

\* Mutant of SettingKey: every change is saved as the response model.
SettingKeyAlwaysResponse(modelType) == "default_model"

\* The key of the setting a model type is saved under.
SettingKey(modelType) ==
  IF modelType = "response"
    THEN "default_model"
    ELSE "default_image_generation_model"

\* The updated_settings object of the PUT body.
UpdatedSettings(modelValue, modelType) ==
  SettingKey(modelType) :> modelValue

\* handleModelChange up to its first await: the PUT request it issues,
\* with the arguments of the call.
SaveRequest(modelValue, modelType) ==
  [id               |-> nextId,
   modelValue       |-> modelValue,
   modelType        |-> modelType,
   url              |-> "save-settings",
   method           |-> "PUT",
   updated_settings |-> UpdatedSettings(modelValue, modelType),
   stage            |-> "sent"]

\* The requests a change event issues: the listener calls onChange, which
\* is handleModelChange with the type the dropdown was created for.
ChangeListener(dropdown, value) ==
  {SaveRequest(value, dropdown.onChange)}

\* The user picks another option of an injected dropdown: the browser
\* shows it and fires the change event.
UserChange(e, pos, v) ==
  /\ nextId <= MaxSaves
  /\ page[e].present
  /\ page[e].container # NoContainer
  /\ pos \in 1..Len(page[e].container)
  /\ LET dropdown == page[e].container[pos]
     IN /\ v \in UserChoices(dropdown.models)
        /\ v # dropdown.value
        /\ page' = [page EXCEPT ![e].container[pos].value = v]
        /\ requests' = requests \cup ChangeListener(dropdown, v)
        /\ disturbed' =
             [t \in ModelTypes |->
                disturbed[t]
                \/ (t = dropdown.onChange
                    /\ \E r \in requests : r.modelType = t)]
  /\ nextId' = nextId + 1
  /\ last' = Environment
  /\ UNCHANGED <<server, initState, currentResponseModel, currentImageModel,
                 areSettingsInitialized, observer, mutations>>

\* What becomes of a request: answered 200 with a JSON body ("ok"), 200
\* with a body that does not parse ("badJson"), a non-OK status ("notOk"),
\* or a network failure before the server saw it ("rejected").
Outcomes == {"ok", "badJson", "notOk", "rejected"}

\* The outcomes in which the server has applied the request.
Applied == {"ok", "badJson"}

\* The server's settings after it applies updated_settings.
ServerApply(settings, updated) ==
  [k \in DOMAIN settings |->
     IF k \in DOMAIN updated THEN updated[k] ELSE settings[k]]

\* The server (or the network) handles a request in flight.
ServerProcess(r, outcome) ==
  /\ r \in requests
  /\ r.stage = "sent"
  /\ outcome \in Outcomes
  /\ server' = IF outcome \in Applied
                 THEN ServerApply(server, r.updated_settings)
                 ELSE server
  /\ requests' = (requests \ {r}) \cup {[r EXCEPT !.stage = outcome]}
  /\ last' = Environment
  /\ UNCHANGED <<initState, currentResponseModel, currentImageModel,
                 areSettingsInitialized, observer, page, mutations, nextId, disturbed>>

\* Mutant of SaveSucceed: the test of the model type is inverted, so the
\* value is stored in the field of the other type.
SaveSucceedWrongField(r) ==
  /\ r \in requests
  /\ r.stage = "ok"
  /\ LET curR == IF r.modelType = "image"
                   THEN r.modelValue ELSE currentResponseModel
         curI == IF r.modelType = "image"
                   THEN currentImageModel ELSE r.modelValue
     IN /\ currentResponseModel' = curR
        /\ currentImageModel' = curI
        /\ page' = SyncDropdowns(page, curR, curI)
  /\ requests' = requests \ {r}
  /\ last' = [op |-> "SaveSucceed", injected |-> {}, settled |-> "resolved",
              logged |-> 0]
  /\ UNCHANGED <<server, initState, areSettingsInitialized, observer,
                 mutations, nextId, disturbed>>

\* handleModelChange after a successful save: the model of the changed
\* type is stored, then syncDropdowns runs.
SaveSucceed(r) ==
  /\ r \in requests
  /\ r.stage = "ok"
  /\ LET curR == IF r.modelType = "response"
                   THEN r.modelValue ELSE currentResponseModel
         curI == IF r.modelType = "response"
                   THEN currentImageModel ELSE r.modelValue
     IN /\ currentResponseModel' = curR
        /\ currentImageModel' = curI
        /\ page' = SyncDropdowns(page, curR, curI)
  /\ requests' = requests \ {r}
  /\ last' = [op |-> "SaveSucceed", injected |-> {}, settled |-> "resolved",
              logged |-> 0]
  /\ UNCHANGED <<server, initState, areSettingsInitialized, observer,
                 mutations, nextId, disturbed>>

\* Mutant of SaveFail: the model is stored before the response is
\* examined, so a failed save stores it too.
SaveFailStoresModel(r) ==
  /\ r \in requests
  /\ r.stage \in Outcomes \ {"ok"}
  /\ LET curR == IF r.modelType = "response"
                   THEN r.modelValue ELSE currentResponseModel
         curI == IF r.modelType = "response"
                   THEN currentImageModel ELSE r.modelValue
     IN /\ currentResponseModel' = curR
        /\ currentImageModel' = curI
        /\ page' = SyncDropdowns(page, curR, curI)
  /\ requests' = requests \ {r}
  /\ disturbed' =
       [t \in ModelTypes |->
          disturbed[t] \/ (t = r.modelType /\ r.stage \in Applied)]
  /\ last' = [op |-> "SaveFail", injected |-> {}, settled |-> "resolved",
              logged |-> 1]
  /\ UNCHANGED <<server, initState, areSettingsInitialized, observer,
                 mutations, nextId>>

\* handleModelChange after a failed save: the error is logged, the stored
\* models are left alone, then syncDropdowns runs.
SaveFail(r) ==
  /\ r \in requests
  /\ r.stage \in Outcomes \ {"ok"}
  /\ page' = SyncDropdowns(page, currentResponseModel, currentImageModel)
  /\ requests' = requests \ {r}
  /\ disturbed' =
       [t \in ModelTypes |->
          disturbed[t] \/ (t = r.modelType /\ r.stage \in Applied)]
  /\ last' = [op |-> "SaveFail", injected |-> {}, settled |-> "resolved",
              logged |-> 1]
  /\ UNCHANGED <<server, initState, currentResponseModel, currentImageModel,
                 areSettingsInitialized, observer, mutations, nextId>>

(***************************************************************************)
(* Specifications                                                          *)
(***************************************************************************)

Next ==
  \/ InitSucceed
  \/ \E kind \in FetchFailures : InitFail(kind)
  \/ \E e \in Elements : PageAddElement(e)
  \/ \E e \in Elements : PageRemoveElement(e)
  \/ \E e \in Elements : PageReplaceElement(e)
  \/ \E e \in Elements : PageRemoveSibling(e)
  \/ PageAddOther
  \/ ObserverCallback
  \/ \E e \in Elements, pos \in 1..2, v \in OptionValues(responseModels)
                                          \cup OptionValues(imageModels) :
       UserChange(e, pos, v)
  \/ \E r \in requests, outcome \in Outcomes : ServerProcess(r, outcome)
  \/ \E r \in requests : SaveSucceed(r)
  \/ \E r \in requests : SaveFail(r)

Spec == Init /\ [][Next]_vars

\* The browser delivers queued mutation records to the observer callback.
FairSpec == Spec /\ WF_vars(ObserverCallback)

(***************************************************************************)
(* Vocabulary of the properties                                            *)
(***************************************************************************)

\* The stored model of a type.
Stored(t) == IF t = "response" THEN currentResponseModel ELSE currentImageModel

\* The position of the dropdown of a type inside a container.
Position(t) == IF t = "response" THEN 1 ELSE 2

\* The list of models of a type.
ModelsOf(t) == IF t = "response" THEN responseModels ELSE imageModels

\* The elements that hold a container.
Injected(pg) == {e \in Elements : pg[e].container # NoContainer}

\* The stages of a request whose save failed.
FailedStages == {"rejected", "notOk", "badJson"}

\* C1 (as stated).  After initialization has succeeded, an element that
\* matches a selector and holds no container does not stay that way: the
\* observer eventually injects a container into it (or the page removes it).
C1_AnyRerenderIsReinjected ==
  \A e \in Elements :
    (areSettingsInitialized /\ e \in NeedsContainer(page))
      ~> (e \notin NeedsContainer(page))

\* C1 (amended).  After initialization has succeeded, once the page has
\* added nodes (a mutation record with added nodes is queued for the
\* observer), an element that matches a selector and holds no container
\* does not stay that way: the observer callback injects a container.
C1_AddedNodesAreReinjected ==
  \A e \in Elements :
    (areSettingsInitialized /\ e \in NeedsContainer(page)
       /\ MutationRecord(1) \in mutations)
      ~> (e \notin NeedsContainer(page))

\* C1 witness: the observer callback has injected a container.
C1_Witness == last.op = "ObserverCallback" /\ last.injected # {}

\* C2.  A change event on an injected dropdown issues exactly one PUT to
\* the save-settings endpoint; its updated_settings has exactly one key,
\* default_model for a dropdown of the response models and
\* default_image_generation_model for a dropdown of the image models, and
\* the value is the option just selected.
C2_ChangeIssuesOnePut ==
  [][\A e \in Elements, pos \in 1..2 :
       (/\ nextId' # nextId
        /\ pos \in DOMAIN page[e].container
        /\ page'[e].container[pos].value # page[e].container[pos].value)
       => \E r \in requests' :
            /\ r \notin requests
            /\ requests' = requests \cup {r}
            /\ r.method = "PUT"
            /\ r.url = "save-settings"
            /\ DOMAIN r.updated_settings =
                 {IF page[e].container[pos].models = responseModels
                    THEN "default_model"
                    ELSE "default_image_generation_model"}
            /\ \A k \in DOMAIN r.updated_settings :
                 r.updated_settings[k] = page'[e].container[pos].value]_vars

\* C2 witness: a save of the image model is in flight.
C2_Witness ==
  \E r \in requests :
    r.stage = "sent" /\ r.modelType = "image" /\ r.modelValue = "dall-e-3"

\* C3.  The step in which handleModelChange handles a failed save (the
\* fetch rejected, the status was not OK, or the body did not parse)
\* leaves currentResponseModel and currentImageModel as they were, logs one
\* error and lets the promise of the call resolve.
C3_FailedSaveKeepsModels ==
  [][(\E r \in requests : r.stage \in FailedStages /\ r \notin requests')
       => /\ currentResponseModel' = currentResponseModel
          /\ currentImageModel' = currentImageModel
          /\ last'.logged = 1
          /\ last'.settled = "resolved"]_vars

\* C3 witness: a failed save has been handled while the server had
\* applied it, so the stored model differs from the server's.
C3_Witness ==
  /\ last.op = "SaveFail"
  /\ currentResponseModel = "turbo"
  /\ server.default_model = "claude2"

\* C4.  Once the settings fetch of init has failed, it stays failed, the
\* flag stays false, no observer exists and no element holds a container.
C4_FailedInitInjectsNothing ==
  [][/\ initState = "failed" => initState' = "failed"
     /\ initState' = "failed"
          => /\ ~areSettingsInitialized'
             /\ observer' = "null"
             /\ Injected(page') = {}]_vars

\* C4 witness: init has failed and the page shows a matching element.
C4_Witness ==
  /\ initState = "failed"
  /\ last.op = "environment"
  /\ \A e \in Elements : page[e].present

\* C5.  Every container holds exactly two selects: first the dropdown of
\* the response models, whose changes are saved as the response model,
\* then the dropdown of the image models, whose changes are saved as the
\* image model; each displays one of its own options or none.
C5_ContainerLayout ==
  \A e \in Injected(page) :
    LET c == page[e].container
    IN /\ Len(c) = 2
       /\ c[1].models = responseModels
       /\ c[1].onChange = "response"
       /\ c[1].value \in OptionValues(responseModels) \cup {""}
       /\ c[2].models = imageModels
       /\ c[2].onChange = "image"
       /\ c[2].value \in OptionValues(imageModels) \cup {""}

\* C5 witness: syncDropdowns has written both stored models into a
\* container.
C5_Witness ==
  /\ last.op = "SaveSucceed"
  /\ \E e \in Injected(page) :
       /\ page[e].container[1].value = "claude2"
       /\ page[e].container[2].value = "dall-e-3"

\* C6.  An observer or a container exists only after the settings fetch
\* has completed and the flag has been set.
C6_NothingBeforeSettings ==
  (observer # "null" \/ Injected(page) # {})
    => (areSettingsInitialized /\ initState = "done")

\* C6 witness: the observer exists and a container has been injected.
C6_Witness == observer = "observing" /\ Injected(page) = Elements

C8_FailedSaveReverts ==
  [][\A r \in requests :
       (r.stage \in FailedStages /\ r \notin requests')
       => \A e \in Injected(page') :
            page'[e].container[Position(r.modelType)].value
              = CreateDropdown(ModelsOf(r.modelType), Stored(r.modelType),
                               r.modelType).value]_vars

C10_NewDropdownShowsStoredModel ==
  [][\A e \in Injected(page') \ Injected(page) :
       /\ page'[e].container[1].value = currentResponseModel'
       /\ page'[e].container[2].value = currentImageModel']_vars

\* C10 (amended).  A dropdown created by injectDropdowns displays the
\* model stored for its type at that moment when it is one of its options
\* (as it is after every successful save), no option when the stored model
\* is a non-empty value that is not one of its options, and its first
\* option when no model is stored.
C10_NewDropdownShowsStoredModelIfOffered ==
  [][\A e \in Injected(page') \ Injected(page), t \in ModelTypes :
       page'[e].container[Position(t)].value
         = IF Stored(t)' \in OptionValues(ModelsOf(t)) THEN Stored(t)'
           ELSE IF Truthy(Stored(t)') THEN ""
           ELSE ModelsOf(t)[1]]_vars

\* C10 witness: the observer callback has injected a container that
\* displays a model stored by a save, which the server did not hold at
\* initialization.
C10_Witness ==
  /\ last.op = "ObserverCallback"
  /\ currentResponseModel = "claude2"
  /\ \E e \in last.injected : page[e].container[1].value = "claude2"

(***************************************************************************)
(* The variant of init that issues two settings fetches in parallel        *)
(* (src/content_script.js lines 56-399).  Its fetches are kept in          *)
(* "requests"; no save is issued in this specification.                    *)
(***************************************************************************)

\* this.responseModels of the variant.
responseModelsTwoFetch ==
  <<"turbo", "claude2", "experimental", "gpt4o", "llama_x_large", "grok",
    "claude35haiku">>

\* this.imageModels of the variant.
imageModelsTwoFetch == <<"default", "dall-e-3", "sdxl", "flux">>

\* The setting keys init passes to getCurrentModel.
SettingKeys == {"default_model", "default_image_generation_model"}

\* What the server may hold when the variant starts: each setting absent
\* or set, independently of the other.
ServerSettingsTwoFetch ==
  [default_model : {"undefined", "turbo"},
   default_image_generation_model : {"undefined", "sdxl"}]

\* The body of a response that has not arrived or has no readable body.
NoData == [k \in SettingKeys |-> "none"]

\* getCurrentModel(settingKey) up to its first await: the GET it issues.
\* "order" becomes the place of the call in the order of completion.
SettingsFetch(settingKey) ==
  [settingKey |-> settingKey, url |-> "settings", stage |-> "sent",
   data |-> NoData, order |-> 0]

\* The state after construction: init has called getCurrentModel twice.
InitTwoFetch ==
  /\ server \in ServerSettingsTwoFetch
  /\ initState = "fetching"
  /\ currentResponseModel = "null"
  /\ currentImageModel = "null"
  /\ areSettingsInitialized = FALSE
  /\ observer = "null"
  /\ page \in [Elements -> {BareElement, AbsentElement}]
  /\ mutations = {}
  /\ requests = {SettingsFetch(k) : k \in SettingKeys}
  /\ nextId = 1
  /\ disturbed = [t \in ModelTypes |-> FALSE]
  /\ last = Op("constructor")

\* The calls of getCurrentModel that have completed.
Completed(fetches) == {f \in fetches : f.stage \in {"fulfilled", "failed"}}

\* The server (or the network) answers a settings fetch: with the
\* settings it holds, or with one of the failures.
FetchRespond(f, outcome) ==
  /\ f \in requests
  /\ f.stage = "sent"
  /\ outcome \in {"ok"} \cup FetchFailures
  /\ requests' = (requests \ {f})
       \cup {[f EXCEPT !.stage = outcome,
                       !.data = IF outcome = "ok" THEN server ELSE NoData]}
  /\ last' = Environment
  /\ UNCHANGED <<server, initState, currentResponseModel, currentImageModel,
                 areSettingsInitialized, observer, page, mutations, nextId,
                 disturbed>>

\* Mutant of StoreFetched: the test of the setting key is inverted, so
\* each fetch writes the field of the other setting.
StoreFetchedOtherField(settingKey, value, curR, curI) ==
  IF ~Truthy(value) THEN <<curR, curI>>
  ELSE IF settingKey = "default_model" THEN <<curR, value>>
  ELSE <<value, curI>>

\* getCurrentModel, the assignment: a truthy data[settingKey] is stored in
\* the field of its key; the pair is <<response model, image model>>.
StoreFetched(settingKey, value, curR, curI) ==
  IF ~Truthy(value) THEN <<curR, curI>>
  ELSE IF settingKey = "default_model" THEN <<value, curI>>
  ELSE <<curR, value>>

\* getCurrentModel after a successful response.
GetCurrentModelSucceed(f) ==
  /\ f \in requests
  /\ f.stage = "ok"
  /\ LET stored == StoreFetched(f.settingKey, f.data[f.settingKey],
                                currentResponseModel, currentImageModel)
     IN /\ currentResponseModel' = stored[1]
        /\ currentImageModel' = stored[2]
  /\ requests' = (requests \ {f})
       \cup {[f EXCEPT !.stage = "fulfilled",
                       !.order = Cardinality(Completed(requests)) + 1]}
  /\ last' = [op |-> "GetCurrentModelSucceed", injected |-> {},
              settled |-> "resolved", logged |-> 0]
  /\ UNCHANGED <<server, initState, areSettingsInitialized, observer, page,
                 mutations, nextId, disturbed>>

\* getCurrentModel after a failed fetch: the error is logged and rethrown.
GetCurrentModelFail(f) ==
  /\ f \in requests
  /\ f.stage \in FetchFailures
  /\ requests' = (requests \ {f})
       \cup {[f EXCEPT !.stage = "failed",
                       !.order = Cardinality(Completed(requests)) + 1]}
  /\ last' = [op |-> "GetCurrentModelFail", injected |-> {},
              settled |-> "rejected", logged |-> 1]
  /\ UNCHANGED <<server, initState, currentResponseModel, currentImageModel,
                 areSettingsInitialized, observer, page, mutations, nextId,
                 disturbed>>

\* Mutant of PromiseAll: Promise.race, which settles with the first call
\* that completes.
PromiseRace(fetches) ==
  IF \E f \in fetches : f.stage = "failed" /\ f.order = 1 THEN "rejected"
  ELSE IF \E f \in fetches : f.stage = "fulfilled" THEN "fulfilled"
  ELSE "pending"

\* Promise.all over the calls: rejected as soon as one has failed,
\* fulfilled once all have succeeded.
PromiseAll(fetches) ==
  IF \E f \in fetches : f.stage = "failed" THEN "rejected"
  ELSE IF \A f \in fetches : f.stage = "fulfilled" THEN "fulfilled"
  ELSE "pending"

\* The container injectDropdowns of the variant builds.
NewContainerTwoFetch(curR, curI) ==
  <<CreateDropdown(responseModelsTwoFetch, curR, "response"),
    CreateDropdown(imageModelsTwoFetch, curI, "image")>>

\* injectDropdowns of the variant.
InjectDropdownsTwoFetch(pg, curR, curI) ==
  [e \in Elements |->
     IF e \in NeedsContainer(pg)
       THEN [pg[e] EXCEPT !.container = NewContainerTwoFetch(curR, curI)]
       ELSE pg[e]]

\* init after Promise.all has fulfilled: set the flag, create the observer
\* and inject.
InitTwoFetchContinue ==
  /\ initState = "fetching"
  /\ PromiseAll(requests) = "fulfilled"
  /\ initState' = "done"
  /\ areSettingsInitialized' = TRUE
  /\ observer' = "observing"
  /\ page' = InjectDropdownsTwoFetch(page, currentResponseModel,
                                     currentImageModel)
  /\ mutations' = IF NeedsContainer(page) # {}
                    THEN {MutationRecord(1)} ELSE {}
  /\ last' = [op |-> "InitTwoFetchContinue", injected |-> NeedsContainer(page),
              settled |-> "resolved", logged |-> 0]
  /\ UNCHANGED <<server, currentResponseModel, currentImageModel, requests,
                 nextId, disturbed>>

\* init after Promise.all has rejected: the error is logged.
InitTwoFetchCatch ==
  /\ initState = "fetching"
  /\ PromiseAll(requests) = "rejected"
  /\ initState' = "failed"
  /\ last' = [op |-> "InitTwoFetchCatch", injected |-> {},
              settled |-> "resolved", logged |-> 1]
  /\ UNCHANGED <<server, currentResponseModel, currentImageModel,
                 areSettingsInitialized, observer, page, mutations, requests,
                 nextId, disturbed>>

\* The observer callback of the variant.
ObserverCallbackTwoFetch ==
  /\ observer = "observing"
  /\ mutations # {}
  /\ LET runs == \E m \in mutations : ShouldInject(m)
         injected == IF runs THEN NeedsContainer(page) ELSE {}
     IN /\ page' = IF runs
                     THEN InjectDropdownsTwoFetch(page, currentResponseModel,
                                                  currentImageModel)
                     ELSE page
        /\ mutations' = IF injected # {} THEN {MutationRecord(1)} ELSE {}
        /\ last' = [op |-> "ObserverCallback", injected |-> injected,
                    settled |-> "none", logged |-> 0]
  /\ UNCHANGED <<server, initState, currentResponseModel, currentImageModel,
                 areSettingsInitialized, observer, requests, nextId,
                 disturbed>>

NextTwoFetch ==
  \/ \E f \in requests, outcome \in {"ok"} \cup FetchFailures :
       FetchRespond(f, outcome)
  \/ \E f \in requests : GetCurrentModelSucceed(f)
  \/ \E f \in requests : GetCurrentModelFail(f)
  \/ InitTwoFetchContinue
  \/ InitTwoFetchCatch
  \/ \E e \in Elements : PageAddElement(e)
  \/ \E e \in Elements : PageRemoveElement(e)
  \/ \E e \in Elements : PageReplaceElement(e)
  \/ \E e \in Elements : PageRemoveSibling(e)
  \/ PageAddOther
  \/ ObserverCallbackTwoFetch

SpecTwoFetch == InitTwoFetch /\ [][NextTwoFetch]_vars

\* What a field holds once the fetch of its key has succeeded: the value
\* the server holds, or null when the server holds none.
Fetched(value) == IF Truthy(value) THEN value ELSE "null"

\* C11.  In the variant with two parallel fetches, the flag becomes true
\* only once both fetches have succeeded and is false whenever a fetch has
\* failed; when it becomes true the stored models are the values the server
\* holds (null for an absent one), whichever fetch completed first; and the
\* successful completion of a fetch leaves the field of the other key alone.
C11_TwoFetchInit ==
  [][/\ (\E f \in requests' : f.stage = "failed") => ~areSettingsInitialized'
     /\ areSettingsInitialized'
          => /\ \A f \in requests' : f.stage = "fulfilled"
             /\ currentResponseModel' = Fetched(server'.default_model)
             /\ currentImageModel'
                  = Fetched(server'.default_image_generation_model)
     /\ \A f \in requests :
          (f.stage = "ok" /\ f \notin requests')
          => IF f.settingKey = "default_model"
               THEN currentImageModel' = currentImageModel
               ELSE currentResponseModel' = currentResponseModel]_vars

\* C11 witness: initialization has completed after the image fetch
\* completed first, and both fetched values are stored.
C11_Witness ==
  /\ areSettingsInitialized
  /\ last.op = "InitTwoFetchContinue"
  /\ currentResponseModel = "turbo"
  /\ currentImageModel = "sdxl"
  /\ \E f \in requests :
       f.settingKey = "default_image_generation_model" /\ f.order = 1

\* C11 witness of the other order: the response fetch completed first.
C11_WitnessResponseFirst ==
  /\ areSettingsInitialized
  /\ currentResponseModel = "turbo"
  /\ currentImageModel = "sdxl"
  /\ \E f \in requests : f.settingKey = "default_model" /\ f.order = 1

====
